---- MODULE Spec2Model ----
(***************************************************************************)
(* Model of the virtual try-on webhook (src/app.py, served by src/run.py). *)
(*                                                                         *)
(* Shared state: the Redis quota keys (rate_limit:<phone>), the User and   *)
(* Session tables of the SQLite database, and the worker threads of the    *)
(* waitress server, each handling one inbound webhook call at a time.      *)
(* A handler is cut into steps at its accesses to the shared stores: the   *)
(* Redis GET, the Redis pipeline execute, the User query, the User commit, *)
(* the Session query, the downloads and the prediction of the try-on job,  *)
(* the write of its result, the Session commit and the                     *)
(* outbound media send.  Python code between two such accesses only works  *)
(* on the thread's own data and belongs to the step before it.             *)
(*                                                                         *)
(* Nullable values are written Null (absent) or Some(v).                   *)
(***************************************************************************)
EXTENDS Integers, Sequences, FiniteSets, TLC

\* ---------------------------------------------------------------- bounds
\* Worker threads handling requests in parallel (run.py serves with 6).
NumWorkers == 2
\* Inbound webhook calls in one behaviour.
MaxEvents == 3
\* The clock counts days and runs from 0 to MaxTime; any number of steps
\* may be taken between two ticks.
MaxTime == 1
\* Inbound webhook calls in one behaviour in which every call carries an
\* image (two Sessions can be completed in it).
MaxJobEvents == 4

Workers == 1..NumWorkers
Identities == {"u1", "u2"}
\* Media references are opaque locators; every inbound message carries its
\* own (MediaUrl0 names the message), so the n-th call received carries n.
Media == 1..MaxEvents

\* ------------------------------------------------------ program constants
\* Config.MAX_DAILY_REQUESTS
MAX_DAILY_REQUESTS == 100
\* Config.RATE_LIMIT_DURATION = timedelta(days=1)
RATE_LIMIT_DURATION == 1
\* f"{Config.NGROK_URL}/static/result.png": every job returns this locator
RESULT_URL == "static/result.png"

Null == <<>>
Some(v) == <<v>>
Val(o) == o[1]

\* ------------------------------------------------------------------ state
VARIABLES
    now,        \* the clock (datetime.utcnow(), Redis server time)
    redis,      \* rate_limit:<phone> -> Null | Some([val, exp]); exp Null = no TTL
    users,      \* User table: phone -> Null | Some([request_count, last_request])
    sessions,   \* Session table: row id -> [user, person_image, garment_image,
                \*                           result_image, completed_at]
    pc,         \* per worker thread: the step its handler is at
    ev,         \* per worker thread: request.form of the call it handles
    loc,        \* per worker thread: the handler's local variables
    allowed,    \* history: Allowed results per identity since its key was created
    dispatched, \* history: the calls of process_virtual_tryon, in order
    hist,       \* history: per identity, the finished calls [media, outcome]
    start,      \* history: per identity, how it started (see Init)
    files,      \* the working directory: person_image.jpg, garment_image.jpg and
                \* static/result.png, each Null or holding an image
    limits,     \* the answer of the last GET /user/<phone>/limits, Null before it
    nEvents     \* history: inbound calls received so far

vars == <<now, redis, users, sessions, pc, ev, loc, allowed, dispatched, hist, start,
          files, limits, nEvents>>

NoEvent == [from |-> Null, media |-> Null]
NoLocals == [rc |-> 0, fault |-> FALSE, sid |-> 0, person |-> Null, restart |-> FALSE,
             fetched |-> FALSE, out |-> Null]
NoFiles == [person |-> Null, garment |-> Null, result |-> Null]

\* ------------------------------------------------------------------ Redis
\* redis_client.get(key): the stored value, None when the key is absent.
RedisGet(store, key) == IF store[key] = Null THEN Null ELSE Some(Val(store[key]).val)

\* SETEX key ttl value at time t: value stored, expiry t + ttl.
RedisSetex(store, key, ttl, v, t) ==
    [store EXCEPT ![key] = Some([val |-> v, exp |-> Some(t + ttl)])]

\* INCR key: adds one and keeps the key's expiry; on an absent key Redis
\* creates it with value 1 and no expiry.
RedisIncr(store, key) ==
    IF store[key] = Null
    THEN [store EXCEPT ![key] = Some([val |-> 1, exp |-> Null])]
    ELSE [store EXCEPT ![key] = Some([Val(@) EXCEPT !.val = @ + 1])]

\* Keys whose expiry has been reached at time t are gone.
Expired(store, key, t) ==
    /\ store[key] # Null
    /\ Val(store[key]).exp # Null
    /\ Val(Val(store[key]).exp) <= t

RedisExpire(store, t) ==
    [k \in DOMAIN store |-> IF Expired(store, k, t) THEN Null ELSE store[k]]

\* TTL key at time t: the time left, -2 when the key is absent and -1 when it
\* has no expiry.
RedisTtl(store, key, t) ==
    IF store[key] = Null THEN -2
    ELSE IF Val(store[key]).exp = Null THEN -1
    ELSE Val(Val(store[key]).exp) - t

\* ------------------------------------------------------------ RateLimiter
\* check_limit, line 83: int(current_count) >= Config.MAX_DAILY_REQUESTS
OverLimit_Strict(count) == count > MAX_DAILY_REQUESTS
OverLimit(count) == count >= MAX_DAILY_REQUESTS

\* check_limit, lines 83-84: return True, nothing is queued on the pipeline.
OnLimited_Counts(store, key) == RedisIncr(store, key)
OnLimited(store, key) == store

\* ------------------------------------------------------- Session queries
\* Session.query.filter_by(user_id=user.id, completed_at=None)
ActiveSessions(tbl, id) ==
    {s \in 1..Len(tbl) : tbl[s].user = id /\ tbl[s].completed_at = Null}

SessionsOf(tbl, id) == {s \in 1..Len(tbl) : tbl[s].user = id}

\* Session(user_id=user.id, person_image=media_url); add; commit
NewSession(id, media) ==
    [user |-> id, person_image |-> Some(media), garment_image |-> Null,
     result_image |-> Null, completed_at |-> Null]

\* webhook, lines 247-248: the failure branch replies and returns without a
\* commit; the garment_image assigned at line 233 lives only in the request's
\* unit of work, which Flask-SQLAlchemy discards when the request ends.
OnJobFailure_Commits(tbl, sid, media) ==
    [tbl EXCEPT ![sid].garment_image = Some(media)]
OnJobFailure(tbl, sid, media) == tbl

\* webhook, lines 233 and 241-243: the commit writes garment_image,
\* result_image and completed_at of the loaded row.
OnJobSuccess(tbl, sid, media, result, t) ==
    [tbl EXCEPT ![sid].garment_image = Some(media),
                ![sid].result_image = Some(result),
                ![sid].completed_at = Some(t)]

\* ---------------------------------------------------------------- set-up
\* Redis and the SQLite file outlive the process, so a start finds the rows
\* and keys that are there.  An identity starts in one of three ways: unknown
\* (no key, no User row); known (a User row, no key); or known and one
\* request short of the daily limit, in a window opened at time 0 by requests
\* that carried no media.  No Session exists at the start.
SeedCount == MAX_DAILY_REQUESTS - 1

Profiles == {"unknown", "known", "near_limit"}

\* Identities are interchangeable: of two set-ups that differ only by
\* swapping the identities, one is kept.
Rank(profile) == IF profile = "unknown" THEN 0 ELSE IF profile = "known" THEN 1 ELSE 2

Ordered(profile) == Rank(profile["u1"]) <= Rank(profile["u2"])

SeedKey(profile) ==
    IF profile = "near_limit"
    THEN Some([val |-> SeedCount, exp |-> Some(RATE_LIMIT_DURATION)])
    ELSE Null

SeedUser(profile) ==
    IF profile = "unknown" THEN Null
    ELSE IF profile = "known"
    THEN Some([request_count |-> 0, last_request |-> Null])
    ELSE Some([request_count |-> SeedCount, last_request |-> Some(0)])

SeedAllowed(profile) == IF profile = "near_limit" THEN SeedCount ELSE 0

Init ==
    /\ now = 0
    /\ \E profile \in [Identities -> Profiles] :
         /\ Ordered(profile)
         /\ start = profile
         /\ redis = [id \in Identities |-> SeedKey(profile[id])]
         /\ users = [id \in Identities |-> SeedUser(profile[id])]
         /\ allowed = [id \in Identities |-> SeedAllowed(profile[id])]
    /\ sessions = <<>>
    /\ pc = [w \in Workers |-> "idle"]
    /\ ev = [w \in Workers |-> NoEvent]
    /\ loc = [w \in Workers |-> NoLocals]
    /\ dispatched = <<>>
    /\ hist = [id \in Identities |-> <<>>]
    /\ files = NoFiles
    /\ limits = Null
    /\ nEvents = 0

\* ----------------------------------------------------------------- steps
Sender(w) == Val(ev[w].from)

\* The handler of worker w returns with the given outcome.
Return(w, outcome) ==
    /\ pc' = [pc EXCEPT ![w] = "idle"]
    /\ ev' = [ev EXCEPT ![w] = NoEvent]
    /\ loc' = [loc EXCEPT ![w] = NoLocals]
    /\ hist' = IF ev[w].from = Null THEN hist
               ELSE [hist EXCEPT ![Sender(w)] =
                        Append(@, [media |-> ev[w].media, outcome |-> outcome])]

Goto(w, label) ==
    /\ pc' = [pc EXCEPT ![w] = label]
    /\ UNCHANGED <<ev, hist>>

\* An inbound POST /webhook is handed to an idle worker thread.
\* rate_limit, lines 176-178: without a From field the call ends with 400.
Accept(w, from, media, bound) ==
    /\ pc[w] = "idle"
    /\ nEvents < bound
    /\ nEvents' = nEvents + 1
    /\ IF from = Null
       THEN UNCHANGED <<pc, ev>>
       ELSE /\ pc' = [pc EXCEPT ![w] = "rl_get"]
            /\ ev' = [ev EXCEPT ![w] = [from |-> from, media |-> media]]
    /\ UNCHANGED <<now, redis, users, sessions, loc, allowed, dispatched, hist, start,
                   files, limits>>

Receive(w, from, media) == Accept(w, from, media, MaxEvents)

\* check_limit, lines 72-84: GET, then the branch on the value read.
RateLimitGet(w) ==
    /\ pc[w] = "rl_get"
    /\ LET cur == RedisGet(redis, Sender(w)) IN
         IF cur = Null
         THEN /\ Goto(w, "rl_setex")
              /\ UNCHANGED <<redis, loc>>
         ELSE IF OverLimit(Val(cur))
         THEN /\ redis' = OnLimited(redis, Sender(w))
              /\ Return(w, "rate_limited")
         ELSE /\ Goto(w, "rl_incr")
              /\ UNCHANGED <<redis, loc>>
    /\ UNCHANGED <<now, users, sessions, allowed, dispatched, start, files, limits, nEvents>>

\* check_limit, lines 75-81: SETEX key 1 day 1; Allowed.
RateLimitSetex(w) ==
    /\ pc[w] = "rl_setex"
    /\ redis' = RedisSetex(redis, Sender(w), RATE_LIMIT_DURATION, 1, now)
    /\ allowed' = [allowed EXCEPT ![Sender(w)] = @ + 1]
    /\ Goto(w, "user_query")
    /\ UNCHANGED <<now, users, sessions, loc, dispatched, start, files, limits, nEvents>>

\* check_limit, lines 86-88: INCR key; Allowed.
RateLimitIncr(w) ==
    /\ pc[w] = "rl_incr"
    /\ redis' = RedisIncr(redis, Sender(w))
    /\ allowed' = [allowed EXCEPT ![Sender(w)] = @ + 1]
    /\ Goto(w, "user_query")
    /\ UNCHANGED <<now, users, sessions, loc, dispatched, start, files, limits, nEvents>>

\* rate_limit, lines 185-191: load the User.  For an unknown phone number a
\* User is constructed; its request_count is None until the row is inserted
\* (the column default applies at INSERT), so line 191 raises TypeError: the
\* call ends with a server error and the pending User is discarded.
UserQuery(w) ==
    /\ pc[w] = "user_query"
    /\ IF users[Sender(w)] = Null
       THEN /\ Return(w, "error")
       ELSE /\ loc' = [loc EXCEPT ![w].rc = Val(users[Sender(w)]).request_count]
            /\ Goto(w, "user_commit")
    /\ UNCHANGED <<now, redis, users, sessions, allowed, dispatched, start, files, limits, nEvents>>

\* rate_limit, lines 190-199: last_request and request_count + 1 (of the value
\* loaded) are committed; a failed commit is rolled back and logged, and the
\* wrapped view runs in either case.
UserCommit(w) ==
    /\ pc[w] = "user_commit"
    /\ \E ok \in BOOLEAN :
         /\ users' = IF ok
                     THEN [users EXCEPT ![Sender(w)] =
                              Some([request_count |-> loc[w].rc + 1,
                                    last_request |-> Some(now)])]
                     ELSE users
         /\ loc' = [loc EXCEPT ![w].rc = 0, ![w].fault = ~ok]
    /\ Goto(w, "webhook")
    /\ UNCHANGED <<now, redis, sessions, allowed, dispatched, start, files, limits, nEvents>>

\* webhook, lines 210-233 and 250: no media ends the call; otherwise the
\* active session is looked up (first() of an unordered query: any matching
\* row) and the branch is taken on the row loaded.
WebhookLookup(w) ==
    /\ pc[w] = "webhook"
    /\ IF ev[w].media = Null
       THEN /\ Return(w, "no_media")
       ELSE LET act == ActiveSessions(sessions, Sender(w)) IN
            IF act = {}
            THEN /\ Goto(w, "create")
                 /\ UNCHANGED loc
            ELSE \E s \in act :
                   IF sessions[s].garment_image = Null
                   THEN /\ loc' = [loc EXCEPT ![w].sid = s,
                                              ![w].person = sessions[s].person_image]
                        /\ Goto(w, "dispatch")
                   ELSE /\ loc' = [loc EXCEPT ![w].restart = TRUE]
                        /\ Goto(w, "create")
    /\ UNCHANGED <<now, redis, users, sessions, allowed, dispatched, start, files, limits, nEvents>>

\* webhook, lines 227-230 and 251-254: insert a Session and commit.
CreateSession(w) ==
    /\ pc[w] = "create"
    /\ sessions' = Append(sessions, NewSession(Sender(w), Val(ev[w].media)))
    /\ Return(w, IF loc[w].restart THEN "new_session" ELSE "ask_garment")
    /\ UNCHANGED <<now, redis, users, allowed, dispatched, start, files, limits, nEvents>>

\* The image a try-on of the two given images produces.
TryOn(person, garment) == [person |-> person, garment |-> garment]

\* webhook, lines 235-238, and process_virtual_tryon, line 119: the job is
\* started and the person image is downloaded to person_image.jpg (the file
\* is written only when the download succeeds).
Dispatch(w) ==
    /\ pc[w] = "dispatch"
    /\ dispatched' = Append(dispatched, [sid |-> loc[w].sid,
                                         person |-> Val(loc[w].person),
                                         garment |-> Val(ev[w].media)])
    /\ \E ok \in BOOLEAN :
         /\ files' = IF ok THEN [files EXCEPT !.person = loc[w].person] ELSE files
         /\ loc' = [loc EXCEPT ![w].fetched = ok]
    /\ Goto(w, "fetch_garment")
    /\ UNCHANGED <<now, redis, users, sessions, allowed, start, limits, nEvents>>

\* process_virtual_tryon, lines 120-123 (and webhook, 247-248): the garment
\* image is downloaded to garment_image.jpg; if either download failed the
\* job returns None.
FetchGarment(w) ==
    /\ pc[w] = "fetch_garment"
    /\ \E ok \in BOOLEAN :
         /\ files' = IF ok THEN [files EXCEPT !.garment = ev[w].media] ELSE files
         /\ IF ok /\ loc[w].fetched
            THEN /\ Goto(w, "predict")
                 /\ UNCHANGED <<sessions, loc>>
            ELSE /\ sessions' = OnJobFailure(sessions, loc[w].sid, Val(ev[w].media))
                 /\ Return(w, "job_failed")
    /\ UNCHANGED <<now, redis, users, allowed, dispatched, start, limits, nEvents>>

\* process_virtual_tryon, lines 125-139 and 147-151 (and webhook, 247-248):
\* the prediction service is given the two files as they are now and returns
\* the try-on image, or fails, and then the job returns None.
Predict(w) ==
    /\ pc[w] = "predict"
    /\ \E ok \in BOOLEAN :
         IF ok
         THEN /\ loc' = [loc EXCEPT ![w].out =
                            Some(TryOn(Val(files.person), Val(files.garment)))]
              /\ Goto(w, "persist")
              /\ UNCHANGED sessions
         ELSE /\ sessions' = OnJobFailure(sessions, loc[w].sid, Val(ev[w].media))
              /\ Return(w, "job_failed")
    /\ UNCHANGED <<now, redis, users, allowed, dispatched, start, files, limits, nEvents>>

\* process_virtual_tryon, lines 140-146: the image is written to
\* static/result.png and the locator of that file is returned.
Persist(w) ==
    /\ pc[w] = "persist"
    /\ files' = [files EXCEPT !.result = loc[w].out]
    /\ Goto(w, "record")
    /\ UNCHANGED <<now, redis, users, sessions, loc, allowed, dispatched, start, limits,
                   nEvents>>

\* webhook, lines 241-243: result and completion are committed.
RecordResult(w) ==
    /\ pc[w] = "record"
    /\ sessions' = OnJobSuccess(sessions, loc[w].sid, Val(ev[w].media), RESULT_URL, now)
    /\ Goto(w, "send")
    /\ UNCHANGED <<now, redis, users, loc, allowed, dispatched, start, files, limits, nEvents>>

\* webhook, lines 245-246 and send_media_message: the Twilio call returns or
\* raises; when it raises the call ends with a server error.
SendMedia(w) ==
    /\ pc[w] = "send"
    /\ \E ok \in BOOLEAN : Return(w, IF ok THEN "job_ok" ELSE "error")
    /\ UNCHANGED <<now, redis, users, sessions, allowed, dispatched, start, files, limits, nEvents>>

\* Time passes; keys that reach their expiry are removed.
Tick ==
    /\ now < MaxTime
    /\ now' = now + 1
    /\ redis' = RedisExpire(redis, now + 1)
    /\ allowed' = [id \in Identities |->
                     IF Expired(redis, id, now + 1) THEN 0 ELSE allowed[id]]
    /\ UNCHANGED <<users, sessions, pc, ev, loc, dispatched, hist, start, files, limits, nEvents>>

\* check_limits, lines 264-271: the answer built from the value of the key,
\* its TTL and the User row (one day is answered when the TTL is not positive).
LimitStatus_OffByOne(store, people, id, t) ==
    LET cur == RedisGet(store, id)
        used == IF cur # Null THEN Val(cur) ELSE 0
        ttl == RedisTtl(store, id, t)
    IN  [phone_number |-> id,
         daily_requests_used |-> used,
         daily_requests_remaining |-> MAX_DAILY_REQUESTS - used - 1,
         reset_in |-> IF ttl > 0 THEN ttl ELSE 1,
         total_requests_all_time |->
             IF people[id] # Null THEN Val(people[id]).request_count ELSE 0,
         last_request |->
             IF people[id] # Null THEN Val(people[id]).last_request ELSE Null]
LimitStatus(store, people, id, t) ==
    LET cur == RedisGet(store, id)
        used == IF cur # Null THEN Val(cur) ELSE 0
        ttl == RedisTtl(store, id, t)
    IN  [phone_number |-> id,
         daily_requests_used |-> used,
         daily_requests_remaining |-> MAX_DAILY_REQUESTS - used,
         reset_in |-> IF ttl > 0 THEN ttl ELSE 1,
         total_requests_all_time |->
             IF people[id] # Null THEN Val(people[id]).request_count ELSE 0,
         last_request |->
             IF people[id] # Null THEN Val(people[id]).last_request ELSE Null]

\* check_limits, lines 258-271: GET /user/<phone_number>/limits reads the key,
\* its TTL and the User row and answers; it runs on a thread of its own,
\* whatever the webhook calls in progress are doing.  It is counted as a call
\* received.
CheckLimits(id) ==
    /\ nEvents < MaxEvents
    /\ nEvents' = nEvents + 1
    /\ limits' = Some(LimitStatus(redis, users, id, now))
    /\ UNCHANGED <<now, redis, users, sessions, pc, ev, loc, allowed, dispatched, hist,
                   start, files>>

Inbound == {[from |-> Null, media |-> Null]} \cup
           [from : {Some(id) : id \in Identities},
            media : {Null, Some(nEvents + 1)}]

Handle(w) ==
    \/ RateLimitGet(w)
    \/ RateLimitSetex(w)
    \/ RateLimitIncr(w)
    \/ UserQuery(w)
    \/ UserCommit(w)
    \/ WebhookLookup(w)
    \/ CreateSession(w)
    \/ Dispatch(w)
    \/ FetchGarment(w)
    \/ Predict(w)
    \/ Persist(w)
    \/ RecordResult(w)
    \/ SendMedia(w)

AllIdle == \A w \in Workers : pc[w] = "idle"

\* Calls are handled in parallel by the worker threads.
Next ==
    \/ \E w \in Workers : \E e \in Inbound : Receive(w, e.from, e.media)
    \/ \E w \in Workers : Handle(w)
    \/ Tick

Spec == Init /\ [][Next]_vars

\* Calls are handled one at a time: a call is received only when no other
\* call is being handled (which thread then serves it makes no difference,
\* so the first does).
NextSeq ==
    \/ \E e \in Inbound : AllIdle /\ Receive(1, e.from, e.media)
    \/ \E w \in Workers : Handle(w)
    \/ Tick

SpecSeq == Init /\ [][NextSeq]_vars

\* Calls are handled one at a time, and the limits of an identity are asked
\* for at any moment.
NextLimits ==
    \/ \E e \in Inbound : AllIdle /\ Receive(1, e.from, e.media)
    \/ \E w \in Workers : Handle(w)
    \/ Tick
    \/ \E id \in Identities : CheckLimits(id)

SpecLimits == Init /\ [][NextLimits]_vars

\* Calls are handled one at a time and every call comes from an identity and
\* carries an image.
NextJobs ==
    \/ \E id \in Identities :
           AllIdle /\ Accept(1, Some(id), Some(nEvents + 1), MaxJobEvents)
    \/ \E w \in Workers : Handle(w)
    \/ Tick

SpecJobs == Init /\ [][NextJobs]_vars

\* ----------------------------------------------------------- properties
Last(seq) == seq[Len(seq)]

Count(id) == Val(redis[id]).val

\* The stores an inbound call can change.
stores == <<redis, users, sessions, dispatched>>

\* The step of worker w that ends its call with the given outcome.
Ends(w, outcome) ==
    /\ pc[w] # "idle"
    /\ pc'[w] = "idle"
    /\ Last(hist'[Sender(w)]).outcome = outcome

\* C1: with calls handled one at a time, every identity has zero or one
\* Session whose completed_at is null, in every reachable state.
C1_AtMostOneActiveSession ==
    \A id \in Identities : Cardinality(ActiveSessions(sessions, id)) \in {0, 1}

\* C1 at work: an identity whose job failed has exactly one active Session,
\* the one the failed job left behind.
C1_Witness ==
    \E id \in Identities :
        /\ \E k \in 1..Len(hist[id]) : hist[id][k].outcome = "job_failed"
        /\ Cardinality(ActiveSessions(sessions, id)) = 1

\* C2: with calls handled one at a time, a check is answered Limited exactly
\* when 100 checks were already Allowed in the identity's window, and the
\* stored count is never above 100.
C2_LimitedIffHundredAllowed ==
    [][/\ \A w \in Workers :
            (pc[w] = "rl_get" /\ pc'[w] # "rl_get") =>
                (Ends(w, "rate_limited") <=> allowed[Sender(w)] >= MAX_DAILY_REQUESTS)
       /\ \A id \in Identities :
            redis'[id] # Null => Val(redis'[id]).val <= MAX_DAILY_REQUESTS]_vars

\* C2 at work: the 100th check of a window was Allowed and the next Limited.
C2_Witness ==
    \E id \in Identities :
        /\ redis[id] # Null
        /\ Count(id) = MAX_DAILY_REQUESTS
        /\ allowed[id] = MAX_DAILY_REQUESTS
        /\ Len(hist[id]) >= 2
        /\ Last(hist[id]).outcome = "rate_limited"

\* C3: under any interleaving of concurrent checks of one identity, at most
\* 100 checks are Allowed in one window.
C3_AtMostHundredAllowed ==
    \A id \in Identities : allowed[id] <= MAX_DAILY_REQUESTS

\* C4: an entry created at day T is reset by the first check at T + 1 day or
\* later and by none before: every entry that exists carries an expiry, which
\* lies ahead and at most one window ahead.
C4_EveryEntryExpires ==
    \A id \in Identities :
        redis[id] # Null =>
            /\ Val(redis[id]).exp # Null
            /\ Val(Val(redis[id]).exp) > now
            /\ Val(Val(redis[id]).exp) <= now + RATE_LIMIT_DURATION

\* C5: when image calls of one identity are handled concurrently, the
\* identity never has two Sessions with completed_at null at once.
C5_NoTwoActiveSessions ==
    \A s1, s2 \in 1..Len(sessions) :
        (/\ sessions[s1].user = sessions[s2].user
         /\ sessions[s1].completed_at = Null
         /\ sessions[s2].completed_at = Null) => s1 = s2

\* C6: when calls of one identity are handled concurrently in one window, the
\* count rises by at least one for every Allowed result: the stored count is
\* never below the number of checks Allowed in the window.
C6_CountCoversAllowed ==
    \A id \in Identities :
        IF redis[id] = Null THEN allowed[id] = 0 ELSE Count(id) >= allowed[id]

\* The identity has sent n calls, all of them images and all of them handled.
Images(id, n) ==
    /\ Len(hist[id]) = n
    /\ \A k \in 1..n : hist[id][k].media # Null
    /\ \A w \in Workers : pc[w] # "idle" => Sender(w) # id

Row(id, person, garment, done) ==
    \E s \in SessionsOf(sessions, id) :
        /\ sessions[s].person_image = person
        /\ sessions[s].garment_image = garment
        /\ (sessions[s].result_image # Null) = done
        /\ (sessions[s].completed_at # Null) = done

\* C7: for an identity that starts unknown, image A leaves one active Session
\* with person A and no garment and the reply asks for the garment; image B,
\* the dispatcher succeeding, then leaves that Session completed with person A,
\* garment B and a result, the dispatcher having been called with (A, B).
C7_FreshTwoImages ==
    \A id \in Identities :
        start[id] = "unknown" =>
            /\ Images(id, 1) =>
                  /\ hist[id][1].outcome = "ask_garment"
                  /\ Cardinality(SessionsOf(sessions, id)) = 1
                  /\ Row(id, hist[id][1].media, Null, FALSE)
            /\ (Images(id, 2) /\ hist[id][2].outcome # "job_failed") =>
                  /\ Cardinality(SessionsOf(sessions, id)) = 1
                  /\ Row(id, hist[id][1].media, hist[id][2].media, TRUE)
                  /\ \E k \in 1..Len(dispatched) :
                        /\ dispatched[k].person = Val(hist[id][1].media)
                        /\ dispatched[k].garment = Val(hist[id][2].media)

\* C8: for an identity that starts unknown, images A, B, C with the dispatcher
\* succeeding on B leave a second Session with person C next to the first,
\* which stays completed with person A and garment B.
C8_FreshThreeImages ==
    \A id \in Identities :
        (/\ start[id] = "unknown"
         /\ Images(id, 3)
         /\ hist[id][2].outcome # "job_failed") =>
            /\ Cardinality(SessionsOf(sessions, id)) = 2
            /\ Row(id, hist[id][1].media, hist[id][2].media, TRUE)
            /\ Row(id, hist[id][3].media, Null, FALSE)

\* What C7 and C8 describe does happen for an identity that starts with a User
\* row: with calls handled one at a time, image A, then image B (dispatcher
\* succeeding), then image C leave the Sessions the two claims name.
KnownIdentityImages ==
    \A id \in Identities :
        start[id] = "known" =>
            /\ Images(id, 1) =>
                  /\ hist[id][1].outcome = "ask_garment"
                  /\ Row(id, hist[id][1].media, Null, FALSE)
            /\ (Images(id, 2) /\ hist[id][2].outcome # "job_failed") =>
                  /\ Cardinality(SessionsOf(sessions, id)) = 1
                  /\ Row(id, hist[id][1].media, hist[id][2].media, TRUE)
            /\ (Images(id, 3) /\ hist[id][2].outcome # "job_failed") =>
                  /\ Cardinality(SessionsOf(sessions, id)) = 2
                  /\ Row(id, hist[id][1].media, hist[id][2].media, TRUE)
                  /\ Row(id, hist[id][3].media, Null, FALSE)

\* C9: after the dispatcher failed on the garment call of an active Session,
\* the stored Session has that call's media as garment_image, no result and
\* no completion, and the identity's next image call creates a new Session
\* instead of running the dispatcher on the failed one again.
C9_FailedJobKeepsGarment ==
    \A id \in Identities : \A k \in 1..Len(hist[id]) :
        hist[id][k].outcome = "job_failed" =>
            /\ \E s \in SessionsOf(sessions, id) :
                  /\ sessions[s].garment_image = hist[id][k].media
                  /\ sessions[s].result_image = Null
                  /\ sessions[s].completed_at = Null
            /\ (k < Len(hist[id]) /\ hist[id][k + 1].media # Null) =>
                  hist[id][k + 1].outcome \in {"new_session", "ask_garment"}

\* C10: a call the limiter rejects (count at 100 in an unexpired window)
\* changes neither the quota entry nor any User or Session and starts no job;
\* receiving a call changes no store either.
C10_RejectedChangesNothing ==
    [][/\ nEvents' # nEvents => UNCHANGED <<stores, allowed>>
       /\ \A w \in Workers :
            (/\ pc[w] = "rl_get"
             /\ pc'[w] # "rl_get"
             /\ redis[Sender(w)] # Null
             /\ Count(Sender(w)) >= MAX_DAILY_REQUESTS) =>
                (Ends(w, "rate_limited") /\ UNCHANGED <<stores, allowed>>)]_vars

\* C10 at work: a known identity whose 100th call was accepted and whose
\* next call was rejected: its lifetime counter stands at 100.
C10_Witness ==
    \E id \in Identities :
        /\ users[id] # Null
        /\ Val(users[id]).request_count = MAX_DAILY_REQUESTS
        /\ Len(hist[id]) = 2
        /\ hist[id][1].outcome # "rate_limited"
        /\ hist[id][2].outcome = "rate_limited"

\* C11: a call without media that passes the limiter changes no Session and
\* starts no job, ends with the reply that asks to send the image again, and
\* leaves the quota entry as the limiter check before it left it; the check
\* of the media comes after the limiter check.
C11_NoMediaCall ==
    [][\A w \in Workers :
          (pc[w] \notin {"idle", "rl_get"} /\ ev[w].media = Null) =>
              /\ UNCHANGED <<sessions, dispatched>>
              /\ pc'[w] = "idle" => (Ends(w, "no_media") /\ UNCHANGED redis)]_vars

\* What C11 describes does happen for the calls of an identity that has a
\* User row.
KnownIdentityNoMedia ==
    [][\A w \in Workers :
          (/\ pc[w] \notin {"idle", "rl_get"}
           /\ ev[w].media = Null
           /\ users[Sender(w)] # Null) =>
              /\ UNCHANGED <<sessions, dispatched>>
              /\ pc'[w] = "idle" => (Ends(w, "no_media") /\ UNCHANGED redis)]_vars

\* C12: when the commit of the User record fails, the handling of the call
\* stops there: the call does not go on to look up, create or advance a
\* Session or to start a job.
C12_FailedCommitAborts ==
    [][\A w \in Workers : loc[w].fault => UNCHANGED <<sessions, dispatched>>]_vars

\* The calls of an identity handled so far that the limiter allowed.
Accepted(id) ==
    Cardinality({k \in 1..Len(hist[id]) : hist[id][k].outcome # "rate_limited"})

\* C13: whenever no call is in progress, every identity the limiter has
\* allowed a call of has a User row, and the request_count of the row has
\* risen by one for each call of the identity the limiter allowed.
C13_RequestCountIsAllowed ==
    AllIdle =>
        \A id \in Identities :
            Accepted(id) > 0 =>
                /\ users[id] # Null
                /\ Val(users[id]).request_count =
                       SeedAllowed(start[id]) + Accepted(id)

\* C14: no step lowers the count of a quota entry that stays in place, and no
\* step changes its expiry, however the calls of the identity interleave.
C14_CountRisesExpiryFixed ==
    [][\A id \in Identities :
          (redis[id] # Null /\ redis'[id] # Null) =>
              /\ Val(redis'[id]).val >= Val(redis[id]).val
              /\ Val(redis'[id]).exp = Val(redis[id]).exp]_vars


\* C15: asking for the limits of an identity changes no quota entry, no User
\* row and no Session (none is created for an unknown identity), and the
\* answer has used = the count of the identity's entry, 0 when it has none,
\* and remaining = 100 - used.
C15_LimitsIsPureRead ==
    [][\A id \in Identities :
          CheckLimits(id) =>
              LET used == IF redis[id] = Null THEN 0 ELSE Count(id) IN
              /\ UNCHANGED <<redis, users, sessions, dispatched, files>>
              /\ Val(limits').phone_number = id
              /\ Val(limits').daily_requests_used = used
              /\ Val(limits').daily_requests_remaining = MAX_DAILY_REQUESTS - used]_vars

\* The limits of an identity with no quota entry and no User row were asked
\* for after a call of another identity was handled: 0 used, 100 remaining,
\* and still no entry and no row.
C15_Witness ==
    /\ limits # Null
    /\ redis[Val(limits).phone_number] = Null
    /\ users[Val(limits).phone_number] = Null
    /\ Val(limits).daily_requests_used = 0
    /\ Val(limits).daily_requests_remaining = MAX_DAILY_REQUESTS
    /\ \E id \in Identities : redis[id] # Null /\ hist[id] # <<>>

\* C16: every call that has been handled ended with a reply: none ended with
\* a server error in place of the reply.
C16_EveryCallReplied ==
    \A id \in Identities :
        \A k \in 1..Len(hist[id]) : hist[id][k].outcome # "error"

\* The calls of an identity that has a User row end without a reply as well:
\* when sending the result raises after a job that succeeded.
KnownIdentityReplied ==
    \A id \in Identities :
        users[id] # Null =>
            \A k \in 1..Len(hist[id]) : hist[id][k].outcome # "error"

\* Call j of the identity is the first call after call k that carries an
\* image and passes the limiter.
NextImage(id, k, j) ==
    /\ k < j
    /\ hist[id][j].media # Null
    /\ hist[id][j].outcome # "rate_limited"
    /\ \A i \in (k + 1)..(j - 1) :
           hist[id][i].media = Null \/ hist[id][i].outcome = "rate_limited"

\* The identity has a completed Session whose garment is the given image.
CompletedWith(id, garment) ==
    \E s \in SessionsOf(sessions, id) :
        /\ sessions[s].completed_at # Null
        /\ sessions[s].result_image # Null
        /\ sessions[s].garment_image = garment

\* C17: with calls handled one at a time, the first image of an identity that
\* passes the limiter after a failed job starts a job (it does not just open
\* another Session), and when that job succeeds a Session of the identity is
\* completed with it.
C17_RecoversAfterFailure ==
    \A id \in Identities :
        \A k, j \in 1..Len(hist[id]) :
            (hist[id][k].outcome = "job_failed" /\ NextImage(id, k, j)) =>
                /\ hist[id][j].outcome \in {"job_failed", "job_ok", "error"}
                /\ hist[id][j].outcome # "job_failed" =>
                       CompletedWith(id, hist[id][j].media)

\* A job of an identity failed and the next image of the identity completed a
\* Session.
C17_Witness ==
    \E id \in Identities :
        \E k, j \in 1..Len(hist[id]) :
            /\ hist[id][k].outcome = "job_failed"
            /\ NextImage(id, k, j)
            /\ hist[id][j].outcome = "job_ok"
            /\ CompletedWith(id, hist[id][j].media)

\* C18: no two calls of the dispatcher are for the same Session.
C18_OneJobPerSession ==
    \A i, j \in 1..Len(dispatched) :
        dispatched[i].sid = dispatched[j].sid => i = j

\* C19: after every step, each Session has completed_at set exactly when
\* result_image is set, a Session with completed_at set has person_image and
\* garment_image set, and a Session that had completed_at set before the step
\* is the same after it.
C19_CompletedIsFinal ==
    [][/\ \A s \in 1..Len(sessions') :
             /\ sessions'[s].completed_at # Null <=> sessions'[s].result_image # Null
             /\ sessions'[s].completed_at # Null =>
                    /\ sessions'[s].person_image # Null
                    /\ sessions'[s].garment_image # Null
       /\ \A s \in 1..Len(sessions) :
             sessions[s].completed_at # Null => sessions'[s] = sessions[s]]_vars


\* C20: in every reachable state, the image at the result locator of every
\* completed Session is the try-on of that Session's person image and garment
\* image.
C20_ResultIsOwn ==
    \A s \in 1..Len(sessions) :
        sessions[s].completed_at # Null =>
            files.result = Some(TryOn(Val(sessions[s].person_image),
                                      Val(sessions[s].garment_image)))
====
